---- MODULE Spec2Model ----
(***************************************************************************)
(* A model of the kaleidoscope front end and code generator:               *)
(*   lexer.rs     Lexer::lexer, Iterator for Lexer                         *)
(*   parser.rs    Parser (recursive descent + precedence climbing)         *)
(*   compiler.rs  Compiler (lowering of one Function into a routine)       *)
(* Characters are one-character strings, source text is a sequence of      *)
(* characters.  Positions are 0-based as in the source; the token at       *)
(* position p of a sequence T is T[p + 1].                                 *)
(***************************************************************************)
EXTENDS Integers, Sequences, FiniteSets, TLC

VARIABLES
    lexer,      \* the Lexer object: [input, chars, pos]
    collected,  \* the tokens Iterator::next has yielded so far
    lexst,      \* "run" | "done" | "panic" | "hang"
    pc,         \* position of the driver in the pipeline of one definition
    input,      \* the text handed to Parser::new
    tokens,     \* Parser.tokens
    pos,        \* Parser.pos
    prec,       \* the precedence table the Parser borrows mutably
    presult,    \* what Parser::parse returned
    module,     \* the backend module: the routines declared so far
    cresult,    \* what Compiler::compile returned
    ndefs       \* definitions handed to the pipeline so far

vars == <<lexer, collected, lexst, pc, input, tokens, pos, prec, presult,
          module, cresult, ndefs>>

lexVars == <<lexer, collected, lexst>>
pipeVars == <<pc, input, tokens, pos, prec, presult, module, cresult, ndefs>>

----------------------------------------------------------------------------
(* Characters and their classes (char::is_whitespace, is_digit(16),         *)
(* is_alphanumeric).                                                        *)

Digits == {"0", "1", "2", "3", "4", "5", "6", "7", "8", "9"}

HexLetters == {"a", "b", "c", "d", "e", "f", "A", "B", "C", "D", "E", "F"}

Letters ==
    {"a", "b", "c", "d", "e", "f", "g", "h", "i", "j", "k", "l", "m", "n",
     "o", "p", "q", "r", "s", "t", "u", "v", "w", "x", "y", "z",
     "A", "B", "C", "D", "E", "F"}

IsWhitespace(c) == c \in {" ", "\n", "\t"}

IsHexDigit(c) == c \in Digits \cup HexLetters

IsAlphanumeric(c) == c \in Letters \cup Digits

IsIdentStart(c) == c \in Letters \cup {"_"}

IsNumberStart(c) == c \in Digits \cup {"."}

DigitValue(c) ==
    CASE c = "0" -> 0 [] c = "1" -> 1 [] c = "2" -> 2 [] c = "3" -> 3
      [] c = "4" -> 4 [] c = "5" -> 5 [] c = "6" -> 6 [] c = "7" -> 7
      [] c = "8" -> 8 [] c = "9" -> 9

----------------------------------------------------------------------------
(* f64 values are modelled as exact rationals n/d in lowest terms, d > 0.   *)

RECURSIVE Gcd(_, _)
Gcd(a, b) == IF b = 0 THEN a ELSE Gcd(b, a % b)

Abs(a) == IF a < 0 THEN -a ELSE a

Rat(n, d) ==
    LET g == Gcd(Abs(n), Abs(d))
        s == IF d < 0 THEN -1 ELSE 1
    IN  [n |-> (s * n) \div g, d |-> (s * d) \div g]

RInt(k) == [n |-> k, d |-> 1]

RAdd(a, b) == Rat(a.n * b.d + b.n * a.d, a.d * b.d)
RSub(a, b) == Rat(a.n * b.d - b.n * a.d, a.d * b.d)
RMul(a, b) == Rat(a.n * b.n, a.d * b.d)
RLess(a, b) == a.n * b.d < b.n * a.d

RECURSIVE Pow10(_)
Pow10(k) == IF k = 0 THEN 1 ELSE 10 * Pow10(k - 1)

\* the value of a run of decimal digits
RECURSIVE DigitsValue(_)
DigitsValue(s) ==
    IF s = <<>> THEN 0
    ELSE 10 * DigitsValue(SubSeq(s, 1, Len(s) - 1)) + DigitValue(s[Len(s)])

AllDigits(s) == \A k \in 1..Len(s) : s[k] \in Digits

Positions(s, cs) == {k \in 1..Len(s) : s[k] \in cs}

Min(S) == CHOOSE x \in S : \A y \in S : x <= y

(* str::parse::<f64> on the scanned run.  The grammar std accepts is        *)
(*   ( Digit+ | Digit+ '.' Digit* | Digit* '.' Digit+ ) ( [eE] Digit+ )?    *)
(* (a sign cannot occur in a scanned run).  ok = FALSE is the Err that the  *)
(* lexer unwraps.                                                           *)
ParseF64(run) ==
    LET es   == Positions(run, {"e", "E"})
        ePos == IF es = {} THEN Len(run) + 1 ELSE Min(es)
        mant == SubSeq(run, 1, ePos - 1)
        expo == SubSeq(run, ePos + 1, Len(run))
        dots == Positions(mant, {"."})
        dPos == IF dots = {} THEN Len(mant) + 1 ELSE Min(dots)
        ip   == SubSeq(mant, 1, dPos - 1)
        fp   == SubSeq(mant, dPos + 1, Len(mant))
        ok   == /\ AllDigits(ip) /\ AllDigits(fp)
                /\ Len(ip) + Len(fp) >= 1
                /\ (es # {} => (Len(expo) >= 1 /\ AllDigits(expo)))
    IN  IF ~ok THEN [ok |-> FALSE, v |-> RInt(0)]
        ELSE [ok |-> TRUE,
              v  |-> Rat(DigitsValue(ip \o fp) *
                           (IF es = {} THEN 1 ELSE Pow10(DigitsValue(expo))),
                         Pow10(Len(fp)))]

----------------------------------------------------------------------------
(* Tokens (enum Token).  x is the payload: the text of an Ident, the value  *)
(* of a Number, the character of an Op, <<>> otherwise.                     *)

Tok(t) == [t |-> t, x |-> <<>>]
TIdent(s) == [t |-> "Ident", x |-> s]
TNumber(v) == [t |-> "Number", x |-> v]
TOp(c) == [t |-> "Op", x |-> c]

IsOp(tok, c) == tok.t = "Op" /\ tok.x = c

\* the match on &src[start..pos] of the identifier arm
Keyword(w) ==
    CASE w = <<"d", "e", "f">> -> Tok("Def")
      [] w = <<"e", "x", "t", "e", "r", "n">> -> Tok("Extern")
      [] w = <<"i", "f">> -> Tok("If")
      [] w = <<"e", "l", "s", "e">> -> Tok("Else")
      [] w = <<"f", "o", "r">> -> Tok("For")
      [] w = <<"i", "n">> -> Tok("In")
      [] w = <<"u", "n", "a", "r", "y">> -> Tok("Unary")
      [] w = <<"b", "i", "n", "a", "r", "y">> -> Tok("Binary")
      [] w = <<"v", "a", "r">> -> Tok("Var")
      [] OTHER -> TIdent(w)

----------------------------------------------------------------------------
(* Lexer::lexer.  src is self.input, i the number of characters the         *)
(* `chars` iterator has consumed, p is self.pos.  The result is             *)
(*   [r |-> "tok" | "eof" | "panic" | "hang", tok, i, p]                    *)
(* with i, p the iterator position and self.pos the call leaves behind.     *)

\* the first position >= i holding a character that is not white space
RECURSIVE SkipWhitespace(_, _)
SkipWhitespace(src, i) ==
    IF i < Len(src) /\ IsWhitespace(src[i + 1])
    THEN SkipWhitespace(src, i + 1) ELSE i

\* the first position >= i whose character is not accepted by the scan
\* loop of the number arm ('.' or is_digit(16))
RECURSIVE ScanNumber(_, _)
ScanNumber(src, i) ==
    IF i < Len(src) /\ (src[i + 1] = "." \/ IsHexDigit(src[i + 1]))
    THEN ScanNumber(src, i + 1) ELSE i

\* the same for the identifier arm ('_' or is_alphanumeric)
RECURSIVE ScanIdent(_, _)
ScanIdent(src, i) ==
    IF i < Len(src) /\ (src[i + 1] = "_" \/ IsAlphanumeric(src[i + 1]))
    THEN ScanIdent(src, i + 1) ELSE i

\* the position just after the first '\n' at or after i; Len(src) + 1 when
\* there is none and the comment loop calls chars.next() for ever
RECURSIVE ScanComment(_, _)
ScanComment(src, i) ==
    IF i >= Len(src) THEN Len(src) + 1
    ELSE IF src[i + 1] = "\n" THEN i + 1 ELSE ScanComment(src, i + 1)

LexResult(r, tok, i, p) == [r |-> r, tok |-> tok, i |-> i, p |-> p]

LexNumber(src, start, i1, p0) ==
    LET j == ScanNumber(src, i1)
        p == start + 1 + (j - i1)
        f == ParseF64(SubSeq(src, start + 1, p))
    IN  IF j >= Len(src)
        THEN LexResult("eof", Tok("EOF"), j, p0)      \* peek() is None
        ELSE IF ~f.ok THEN LexResult("panic", Tok("EOF"), j, p0)
        ELSE LexResult("tok", TNumber(f.v), j, p)

LexIdent(src, start, i1, p0) ==
    LET j == ScanIdent(src, i1)
        p == start + 1 + (j - i1)
    IN  IF j >= Len(src)
        THEN LexResult("eof", Tok("EOF"), j, p0)      \* peek() is None
        ELSE LexResult("tok", Keyword(SubSeq(src, start + 1, p)), j, p)

LexComment(src, start, i1, p0) ==
    LET j == ScanComment(src, i1)
    IN  IF j > Len(src)
        THEN LexResult("hang", Tok("Comment"), Len(src), p0)
        ELSE LexResult("tok", Tok("Comment"), j, start + 1 + (j - i1))

LexOne(src, i, p0) ==
    LET i0    == SkipWhitespace(src, i)
        start == p0 + (i0 - i)
        ch    == src[i0 + 1]
        i1    == i0 + 1
    IN  IF i0 >= Len(src) THEN LexResult("eof", Tok("EOF"), i0, start)
        ELSE CASE ch = "(" -> LexResult("tok", Tok("LParen"), i1, start + 1)
               [] ch = ")" -> LexResult("tok", Tok("RParen"), i1, start + 1)
               [] ch = "," -> LexResult("tok", Tok("Comma"), i1, start + 1)
               [] ch = "#" -> LexComment(src, start, i1, p0)
               [] IsNumberStart(ch) -> LexNumber(src, start, i1, p0)
               [] IsIdentStart(ch) -> LexIdent(src, start, i1, p0)
               [] OTHER -> LexResult("tok", TOp(ch), i1, start + 1)

(* lexer.by_ref().collect() of Parser::new: Iterator::next until it yields  *)
(* None.  [st |-> "ok" | "panic" | "hang", toks].                           *)
RECURSIVE Collect(_, _, _, _)
Collect(src, i, p, acc) ==
    LET r == LexOne(src, i, p)
    IN  CASE r.r = "tok" -> Collect(src, r.i, r.p, Append(acc, r.tok))
          [] r.r = "eof" -> [st |-> "ok", toks |-> acc]
          [] OTHER -> [st |-> r.r, toks |-> acc]

----------------------------------------------------------------------------
(* The AST (enum Expr, struct Prototype, struct Function).  An Option is a  *)
(* sequence of length 0 or 1.                                               *)

ENumber(v) == [k |-> "Number", v |-> v]
EVariable(name) == [k |-> "Variable", name |-> name]
EBinary(op, l, r) == [k |-> "Binary", op |-> op, left |-> l, right |-> r]
ECall(name, args) == [k |-> "Call", func_name |-> name, args |-> args]
EConditional(c, t, e) ==
    [k |-> "Conditional", cond |-> c, consequence |-> t, alternative |-> e]
EFor(v, s, e, st, b) ==
    [k |-> "For", var_name |-> v, start |-> s, end |-> e, step |-> st,
     body |-> b]
EVarIn(vs, b) == [k |-> "VarIn", variables |-> vs, body |-> b]

Prototype(name, args, isop, pr) ==
    [name |-> name, args |-> args, is_op |-> isop, prec |-> pr]

Function(proto, body, anon) ==
    [prototype |-> proto, body |-> body, is_anon |-> anon]

\* crate::ANONYMOUS_FUNCTION_NAME
ANONYMOUS_FUNCTION_NAME == <<"a", "n", "o", "n", "y", "m", "o", "u", "s">>

UnaryName(op) == <<"u", "n", "a", "r", "y", op>>
BinaryName(op) == <<"b", "i", "n", "a", "r", "y", op>>

----------------------------------------------------------------------------
(* The precedence table (HashMap<char, i32>) is a set of <<op, prec>>       *)
(* pairs with one pair per key.                                             *)

HasKey(m, key) == \E e \in m : e[1] = key
Get(m, key) == (CHOOSE e \in m : e[1] = key)[2]
Insert(m, key, v) == {e \in m : e[1] # key} \cup {<<key, v>>}
Remove(m, key) == {e \in m : e[1] # key}

----------------------------------------------------------------------------
(* Parser.  Every parse function takes the token sequence T, the position   *)
(* p (and the table P where it reads it) and returns                        *)
(*   [st |-> "ok" | "err" | "panic", pos, val]                              *)
(* where val is the parsed value (ok) or the message (err); "panic" is the  *)
(* index-out-of-bounds panic of curr().                                     *)

Ok(p, v) == [st |-> "ok", pos |-> p, val |-> v]
Err(p, msg) == [st |-> "err", pos |-> p, val |-> msg]
Panic(p) == [st |-> "panic", pos |-> p, val |-> "index out of bounds"]

EOF1 == "Unexpected end of file."
EOF2 == "Unexpected end of file"

\* curr() is defined (does not panic) at p
CanCurr(T, p) == p < Len(T)

curr(T, p) == T[p + 1]

at_end(T, p) == p >= Len(T)

\* advance(): the position becomes p + 1 in either case; TRUE is Ok(())
advance(T, p) == p + 1 < Len(T)

(* A precedence lookup that gives an operator without an entry the lowest   *)
(* precedence instead of 100.  The grouping of undeclared operators rests   *)
(* on get_token_precedence not behaving like this.                          *)
TokenPrecedenceUnknownLowest(T, p, P) ==
    IF ~at_end(T, p) /\ curr(T, p).t = "Op"
    THEN IF HasKey(P, curr(T, p).x) THEN Get(P, curr(T, p).x) ELSE 0
    ELSE -1

get_token_precedence(T, p, P) ==
    IF ~at_end(T, p) /\ curr(T, p).t = "Op"
    THEN IF HasKey(P, curr(T, p).x) THEN Get(P, curr(T, p).x) ELSE 100
    ELSE -1

\* the `?` operator: an Err (or a panic) of r is returned as it is, an Ok
\* is handed to the rest K of the function
Try(r, K(_)) == IF r.st # "ok" THEN r ELSE K(r)

RECURSIVE parse_expr(_, _, _)
RECURSIVE parse_unary_expr(_, _, _)
RECURSIVE parse_binary_expr(_, _, _, _, _)
RECURSIVE parse_primary(_, _, _)
RECURSIVE parse_id_expr(_, _, _)
RECURSIVE CallArgs(_, _, _, _, _)
RECURSIVE parse_paren_expr(_, _, _)
RECURSIVE parse_conditional_expr(_, _, _)
RECURSIVE parse_for_expr(_, _, _)
RECURSIVE parse_var_expr(_, _, _)
RECURSIVE VarBindings(_, _, _, _)

parse_nb_expr(T, p) ==
    IF ~CanCurr(T, p) THEN Panic(p)
    ELSE IF curr(T, p).t = "Number" THEN Ok(p + 1, ENumber(curr(T, p).x))
    ELSE Err(p, "Expected number literal.")

parse_expr(T, p, P) ==
    Try(parse_unary_expr(T, p, P),
        LAMBDA l : parse_binary_expr(T, l.pos, P, 0, l.val))

parse_unary_expr(T, p, P) ==
    IF at_end(T, p) THEN Err(p, EOF1)
    ELSE IF curr(T, p).t # "Op" THEN parse_primary(T, p, P)
    ELSE IF ~advance(T, p) THEN Err(p + 1, EOF2)
    ELSE Try(parse_unary_expr(T, p + 1, P),
             LAMBDA a : Ok(a.pos, ECall(UnaryName(curr(T, p).x), <<a.val>>)))

\* the right operand of parse_binary_expr: it takes the operators after it
\* that bind tighter than curr_prec
BinaryRight(T, P, curr_prec, right) ==
    IF curr_prec < get_token_precedence(T, right.pos, P)
    THEN parse_binary_expr(T, right.pos, P, curr_prec + 1, right.val)
    ELSE right

\* one iteration of the loop of parse_binary_expr, then the rest of it
parse_binary_expr(T, p, P, floor, left) ==
    IF get_token_precedence(T, p, P) < floor \/ at_end(T, p) THEN Ok(p, left)
    ELSE IF curr(T, p).t # "Op" THEN Err(p, "Invalid operator.")
    ELSE IF ~advance(T, p) THEN Err(p + 1, EOF2)
    ELSE Try(parse_unary_expr(T, p + 1, P), LAMBDA right :
         Try(BinaryRight(T, P, get_token_precedence(T, p, P), right),
             LAMBDA r2 :
                 parse_binary_expr(T, r2.pos, P, floor,
                                   EBinary(curr(T, p).x, left, r2.val))))

parse_primary(T, p, P) ==
    IF ~CanCurr(T, p) THEN Panic(p)
    ELSE CASE curr(T, p).t = "Ident" -> parse_id_expr(T, p, P)
           [] curr(T, p).t = "Number" -> parse_nb_expr(T, p)
           [] curr(T, p).t = "LParen" -> parse_paren_expr(T, p, P)
           [] curr(T, p).t = "If" -> parse_conditional_expr(T, p, P)
           [] curr(T, p).t = "For" -> parse_for_expr(T, p, P)
           [] curr(T, p).t = "Var" -> parse_var_expr(T, p, P)
           [] OTHER -> Err(p, "Unknown expression.")

parse_paren_expr(T, p, P) ==
    IF at_end(T, p) THEN Err(p, EOF1)
    ELSE IF curr(T, p).t # "LParen"
    THEN Err(p, "Expected '(' character at start of parenthesized expression.")
    ELSE IF ~advance(T, p) THEN Err(p + 1, EOF2)
    ELSE Try(parse_expr(T, p + 1, P), LAMBDA e :
             IF at_end(T, e.pos) THEN Err(e.pos, EOF1)
             ELSE IF curr(T, e.pos).t # "RParen"
             THEN Err(e.pos,
                   "Expected ')' character at end of parenthesized expression.")
             ELSE Ok(e.pos + 1, e.val))

\* the argument loop of parse_id_expr, entered at p with args parsed so far
CallArgs(T, p, P, id, args) ==
    Try(parse_expr(T, p, P), LAMBDA a :
        IF at_end(T, a.pos) THEN Err(a.pos, EOF1)
        ELSE IF curr(T, a.pos).t = "RParen"
        THEN Ok(a.pos + 1, ECall(id, Append(args, a.val)))
        ELSE IF curr(T, a.pos).t # "Comma"
        THEN Err(a.pos, "Expected ',' character in function call.")
        ELSE IF ~advance(T, a.pos) THEN Err(a.pos + 1, EOF2)
        ELSE CallArgs(T, a.pos + 1, P, id, Append(args, a.val)))

parse_id_expr(T, p, P) ==
    IF ~CanCurr(T, p) THEN Panic(p)
    ELSE IF curr(T, p).t # "Ident" THEN Err(p, "Expected identifier.")
    ELSE IF ~advance(T, p) THEN Ok(p + 1, EVariable(curr(T, p).x))
    ELSE IF curr(T, p + 1).t # "LParen" THEN Ok(p + 1, EVariable(curr(T, p).x))
    ELSE IF ~advance(T, p + 1) THEN Err(p + 2, EOF2)
    ELSE IF curr(T, p + 2).t = "RParen"
    THEN Ok(p + 2, ECall(curr(T, p).x, <<>>))
    ELSE CallArgs(T, p + 2, P, curr(T, p).x, <<>>)

parse_conditional_expr(T, p, P) ==
    IF ~advance(T, p) THEN Err(p + 1, EOF2)
    ELSE Try(parse_expr(T, p + 1, P), LAMBDA c :
         IF at_end(T, c.pos) \/ curr(T, c.pos).t # "Then"
         THEN Err(c.pos, "Expected 'then' keyword.")
         ELSE IF ~advance(T, c.pos) THEN Err(c.pos + 1, EOF2)
         ELSE Try(parse_expr(T, c.pos + 1, P), LAMBDA t :
              IF at_end(T, t.pos) \/ curr(T, t.pos).t # "Else"
              THEN Err(t.pos, "Expected 'else' keyword.")
              ELSE IF ~advance(T, t.pos) THEN Err(t.pos + 1, EOF2)
              ELSE Try(parse_expr(T, t.pos + 1, P), LAMBDA e :
                   Ok(e.pos, EConditional(c.val, t.val, e.val)))))

\* the optional step clause of parse_for_expr: Ok carries an Option
ForStep(T, p, P) ==
    IF curr(T, p).t # "Comma" THEN Ok(p, <<>>)
    ELSE IF ~advance(T, p) THEN Err(p + 1, EOF2)
    ELSE Try(parse_expr(T, p + 1, P), LAMBDA e : Ok(e.pos, <<e.val>>))

\* parse_for_expr from the optional step clause on
ForTail(T, p, P, name, start, end) ==
    IF at_end(T, p) THEN Err(p, EOF1)
    ELSE Try(ForStep(T, p, P), LAMBDA s :
         IF at_end(T, s.pos) THEN Err(s.pos, EOF1)
         ELSE IF curr(T, s.pos).t # "In"
         THEN Err(s.pos, "Expected 'in' keyword in for loop.")
         ELSE IF ~advance(T, s.pos) THEN Err(s.pos + 1, EOF2)
         ELSE Try(parse_expr(T, s.pos + 1, P), LAMBDA b :
              Ok(b.pos, EFor(name, start, end, s.val, b.val))))

parse_for_expr(T, p, P) ==
    IF ~advance(T, p) THEN Err(p + 1, EOF2)
    ELSE IF curr(T, p + 1).t # "Ident"
    THEN Err(p + 1, "Expected identifier in for loop.")
    ELSE IF ~advance(T, p + 1) THEN Err(p + 2, EOF2)
    ELSE IF ~IsOp(curr(T, p + 2), "=")
    THEN Err(p + 2, "Expected '=' character in for loop.")
    ELSE IF ~advance(T, p + 2) THEN Err(p + 3, EOF2)
    ELSE Try(parse_expr(T, p + 3, P), LAMBDA s :
         IF at_end(T, s.pos) THEN Err(s.pos, EOF1)
         ELSE IF curr(T, s.pos).t # "Comma"
         THEN Err(s.pos, "Expected ',' character in for loop.")
         ELSE IF ~advance(T, s.pos) THEN Err(s.pos + 1, EOF2)
         ELSE Try(parse_expr(T, s.pos + 1, P), LAMBDA e :
              ForTail(T, e.pos, P, curr(T, p + 1).x, s.val, e.val)))

\* the optional initializer of one binding of parse_var_expr, entered at the
\* token after the name: Ok carries an Option
VarInit(T, p, P) ==
    IF ~IsOp(curr(T, p), "=") THEN Ok(p, <<>>)
    ELSE IF ~advance(T, p) THEN Err(p + 1, EOF2)
    ELSE Try(parse_expr(T, p + 1, P), LAMBDA e : Ok(e.pos, <<e.val>>))

\* parse_var_expr after one binding: q is at the ',' or the 'in', vs2 are
\* the bindings parsed so far
VarAfterBinding(T, q, P, vs2) ==
    IF ~CanCurr(T, q) THEN Panic(q)
    ELSE IF curr(T, q).t = "Comma"
    THEN IF ~advance(T, q) THEN Err(q + 1, EOF2)
         ELSE VarBindings(T, q + 1, P, vs2)
    ELSE IF curr(T, q).t = "In"
    THEN IF ~advance(T, q) THEN Err(q + 1, EOF2)
         ELSE Try(parse_expr(T, q + 1, P), LAMBDA b :
                  Ok(b.pos, EVarIn(vs2, b.val)))
    ELSE Err(q, "Expected comma or 'in' keyword in variable declaration.")

\* the binding loop of parse_var_expr, entered at p with the bindings so far
VarBindings(T, p, P, vs) ==
    IF ~CanCurr(T, p) THEN Panic(p)
    ELSE IF curr(T, p).t # "Ident"
    THEN Err(p, "Expected identifier in 'var..in' declaration.")
    ELSE IF ~advance(T, p) THEN Err(p + 1, EOF2)
    ELSE Try(VarInit(T, p + 1, P), LAMBDA init :
             VarAfterBinding(T, init.pos, P,
                 Append(vs, [name |-> curr(T, p).x, init |-> init.val])))

parse_var_expr(T, p, P) ==
    IF ~advance(T, p) THEN Err(p + 1, EOF2)
    ELSE VarBindings(T, p + 1, P, <<>>)

----------------------------------------------------------------------------
(* Prototypes and top-level items.  These also return the table they leave  *)
(* behind in the field prec: parse_prototype writes it through &mut.        *)

WithPrec(r, P) == [st |-> r.st, pos |-> r.pos, val |-> r.val, prec |-> P]

\* `prec as usize` of an f64 that a literal produced (never negative)
AsUsize(v) == v.n \div v.d

(* A parameter loop that takes two adjacent identifiers as two parameters,  *)
(* as if the comma between them were optional.  The failure of a missing    *)
(* comma rests on ProtoParams not behaving like this.                       *)
RECURSIVE ProtoParamsCommaOptional(_, _, _)
ProtoParamsCommaOptional(T, p, args) ==
    IF ~CanCurr(T, p) THEN Panic(p)
    ELSE IF curr(T, p).t # "Ident"
    THEN Err(p, "Expected identifier in parameter declaration.")
    ELSE IF ~advance(T, p) THEN Err(p + 1, EOF2)
    ELSE IF curr(T, p + 1).t = "RParen"
    THEN Ok(p + 2, Append(args, curr(T, p).x))
    ELSE IF curr(T, p + 1).t = "Comma"
    THEN ProtoParamsCommaOptional(T, p + 2, Append(args, curr(T, p).x))
    ELSE IF curr(T, p + 1).t = "Ident"
    THEN ProtoParamsCommaOptional(T, p + 1, Append(args, curr(T, p).x))
    ELSE Err(p + 1,
          "Expected ',' or ')' character in prototype declaration.")

\* the loop over the parameters of parse_prototype, entered at p
RECURSIVE ProtoParams(_, _, _)
ProtoParams(T, p, args) ==
    IF ~CanCurr(T, p) THEN Panic(p)
    ELSE IF curr(T, p).t # "Ident"
    THEN Err(p, "Expected identifier in parameter declaration.")
    ELSE IF ~advance(T, p) THEN Err(p + 1, EOF2)
    ELSE IF curr(T, p + 1).t = "RParen"
    THEN Ok(p + 2, Append(args, curr(T, p).x))
    ELSE IF curr(T, p + 1).t = "Comma"
    THEN ProtoParams(T, p + 2, Append(args, curr(T, p).x))
    ELSE Err(p + 1,
          "Expected ',' or ')' character in prototype declaration.")

\* parse_prototype from the '(' on; id, isop, pr are the head just parsed
ProtoTail(T, p, id, isop, pr) ==
    IF ~CanCurr(T, p) THEN Panic(p)
    ELSE IF curr(T, p).t # "LParen"
    THEN Err(p, "Expected '(' character in prototype declaration.")
    ELSE IF ~advance(T, p) THEN Err(p + 1, EOF2)
    ELSE IF curr(T, p + 1).t = "RParen"
    THEN Ok(p + 2, Prototype(id, <<>>, isop, pr))
    ELSE Try(ProtoParams(T, p + 1, <<>>),
             LAMBDA a : Ok(a.pos, Prototype(id, a.val, isop, pr)))

(* A Token::Binary arm that reads the precedence but leaves the table as    *)
(* it is.  That a declared precedence is in effect rests on ProtoBinaryPrec *)
(* not behaving like this.                                                  *)
ProtoBinaryPrecNoInsert(T, p, P, op) ==
    IF curr(T, p).t = "Number"
    THEN IF ~advance(T, p) THEN WithPrec(Err(p + 1, EOF2), P)
         ELSE WithPrec(ProtoTail(T, p + 1, BinaryName(op), TRUE,
                                 AsUsize(curr(T, p).x)), P)
    ELSE WithPrec(ProtoTail(T, p, BinaryName(op), TRUE, 0), P)

\* the Token::Binary arm after the operator op: the optional precedence at
\* p, the insert into the table, then the parameter list
ProtoBinaryPrec(T, p, P, op) ==
    IF curr(T, p).t = "Number"
    THEN IF ~advance(T, p) THEN WithPrec(Err(p + 1, EOF2), P)
         ELSE WithPrec(ProtoTail(T, p + 1, BinaryName(op), TRUE,
                                 AsUsize(curr(T, p).x)),
                       Insert(P, op, AsUsize(curr(T, p).x)))
    ELSE WithPrec(ProtoTail(T, p, BinaryName(op), TRUE, 0), Insert(P, op, 0))

\* the Token::Binary arm
ProtoBinary(T, p, P) ==
    IF ~advance(T, p) THEN WithPrec(Err(p + 1, EOF2), P)
    ELSE IF curr(T, p + 1).t # "Op"
    THEN WithPrec(Err(p + 1,
           "Expected operator in custom operator declaration."), P)
    ELSE IF ~advance(T, p + 1) THEN WithPrec(Err(p + 2, EOF2), P)
    ELSE ProtoBinaryPrec(T, p + 2, P, curr(T, p + 1).x)

(* A Token::Unary arm that enters the operator into the table like the      *)
(* Token::Binary arm does.  That a `unary` declaration leaves the table     *)
(* alone rests on ProtoUnary not behaving like this.                        *)
ProtoUnaryInserts(T, p, P) ==
    IF ~advance(T, p) THEN WithPrec(Err(p + 1, EOF2), P)
    ELSE IF curr(T, p + 1).t # "Op"
    THEN WithPrec(Err(p + 1,
           "Expected operator in custom operator declaration."), P)
    ELSE IF ~advance(T, p + 1) THEN WithPrec(Err(p + 2, EOF2), P)
    ELSE WithPrec(ProtoTail(T, p + 2, UnaryName(curr(T, p + 1).x), TRUE, 0),
                  Insert(P, curr(T, p + 1).x, 0))

\* the Token::Unary arm
ProtoUnary(T, p, P) ==
    IF ~advance(T, p) THEN WithPrec(Err(p + 1, EOF2), P)
    ELSE IF curr(T, p + 1).t # "Op"
    THEN WithPrec(Err(p + 1,
           "Expected operator in custom operator declaration."), P)
    ELSE IF ~advance(T, p + 1) THEN WithPrec(Err(p + 2, EOF2), P)
    ELSE WithPrec(ProtoTail(T, p + 2, UnaryName(curr(T, p + 1).x), TRUE, 0), P)

parse_prototype(T, p, P) ==
    IF ~CanCurr(T, p) THEN WithPrec(Panic(p), P)
    ELSE CASE curr(T, p).t = "Ident" ->
                IF ~advance(T, p) THEN WithPrec(Err(p + 1, EOF2), P)
                ELSE WithPrec(ProtoTail(T, p + 1, curr(T, p).x, FALSE, 0), P)
           [] curr(T, p).t = "Binary" -> ProtoBinary(T, p, P)
           [] curr(T, p).t = "Unary" -> ProtoUnary(T, p, P)
           [] OTHER -> WithPrec(Err(p,
                         "Expected identifier in prototype declaration."), P)

parse_def(T, p, P) ==
    Try(parse_prototype(T, p + 1, P), LAMBDA proto :
        WithPrec(Try(parse_expr(T, proto.pos, proto.prec), LAMBDA body :
                     Ok(body.pos, Function(proto.val, <<body.val>>, FALSE))),
                 proto.prec))

parse_extern(T, p, P) ==
    Try(parse_prototype(T, p + 1, P), LAMBDA proto :
        WithPrec(Ok(proto.pos, Function(proto.val, <<>>, FALSE)), proto.prec))

parse_toplevel_expr(T, p, P) ==
    WithPrec(Try(parse_expr(T, p, P), LAMBDA e :
                 Ok(e.pos,
                    Function(Prototype(ANONYMOUS_FUNCTION_NAME, <<>>, FALSE, 0),
                             <<e.val>>, TRUE))),
             P)

\* the item parse() dispatches to on the current token
ParseItem(T, p, P) ==
    CASE curr(T, p).t = "Def" -> parse_def(T, p, P)
      [] curr(T, p).t = "Extern" -> parse_extern(T, p, P)
      [] OTHER -> parse_toplevel_expr(T, p, P)

(* A parse() that returns the item as it is, trailing tokens or not.  That  *)
(* a successful parse has consumed every token rests on CheckAtEnd not      *)
(* behaving like this.                                                      *)
CheckAtEndSkipped(T, r) == r

\* the check parse() makes on a successful result
CheckAtEnd(T, r) ==
    IF r.st = "ok" /\ ~at_end(T, r.pos)
    THEN WithPrec(Err(r.pos, "Unexpected token after parsed expression."),
                  r.prec)
    ELSE r

parse(T, p, P) ==
    IF at_end(T, p) THEN WithPrec(Err(p, EOF1), P)
    ELSE CheckAtEnd(T, ParseItem(T, p, P))

----------------------------------------------------------------------------
(* The backend as the Compiler drives it (inkwell Context/Builder/Module).  *)
(* A routine is a sequence of basic blocks [name, instrs]; a block is named *)
(* by its index.  An instruction is [op, id, args] where id is the number   *)
(* of the value it defines (0 when it defines none).  A value handle is     *)
(*   [c |-> "const", x |-> rational]   a constant                           *)
(*   [c |-> "reg",   x |-> id]         the result of an instruction         *)
(*   [c |-> "arg",   x |-> i]          the i-th parameter                   *)
(* A slot (PointerValue of an alloca) is [id, name]: name is what          *)
(* get_name() gives back, the name the backend gave the alloca.             *)
(* The building state B of one routine is [blocks, ip, next, vars, names]:  *)
(* ip the builder's insertion block, next the next free value number,       *)
(* vars the Compiler's `variables` map (a set of <<name, slot>> pairs),     *)
(* names the names that parameters and slots of the routine carry.  The     *)
(* names the Compiler gives to other values ("tmpadd", "ifcond", block      *)
(* labels, ...) are left out: no variable of the inputs is spelled so.      *)

Const(v) == [c |-> "const", x |-> v]
Reg(id) == [c |-> "reg", x |-> id]
Arg(i) == [c |-> "arg", x |-> i]

Instr(op, id, args) == [op |-> op, id |-> id, args |-> args]

Block(name) == [name |-> name, instrs |-> <<>>]

\* an instruction appended at the builder's position
Emit(B, ins) ==
    [B EXCEPT !.blocks[B.ip].instrs = Append(@, ins),
              !.next = IF ins.id = 0 THEN @ ELSE @ + 1]

\* context.append_basic_block(parent, name): the new block is the last one
AppendBlock(B, name) == [B EXCEPT !.blocks = Append(@, Block(name))]

PositionAtEnd(B, b) == [B EXCEPT !.ip = b]

(* build_alloca(type, name): value names are unique within a routine, so   *)
(* a requested name that is in use comes back changed.  The backend         *)
(* appends a number; the model appends a mark no identifier contains.       *)
RECURSIVE UniqueName(_, _)
UniqueName(names, name) ==
    IF name \notin names THEN name ELSE UniqueName(names, Append(name, "'"))

\* create_entry_block_alloca: the alloca goes before the first instruction
\* of the entry block
create_entry_block_alloca(B, name) ==
    [B EXCEPT !.blocks[1].instrs =
                  <<Instr("alloca", B.next,
                          <<UniqueName(B.names, name)>>)>> \o @,
              !.next = @ + 1,
              !.names = @ \cup {UniqueName(B.names, name)}]

Slot(id, name) == [id |-> id, name |-> name]

\* the PointerValue create_entry_block_alloca(B, name) returns
AllocaSlot(B, name) == Slot(B.next, UniqueName(B.names, name))

\* module.get_function(name): 0 when there is none, else the index of the
\* function in the module
get_function(M, name) ==
    IF \E i \in 1..Len(M) : M[i].name = name /\ ~M[i].renamed
    THEN CHOOSE i \in 1..Len(M) : M[i].name = name /\ ~M[i].renamed
    ELSE 0

COk(B, v) == [st |-> "ok", val |-> v, B |-> B]
CErr(B, msg) == [st |-> "err", val |-> msg, B |-> B]

RECURSIVE compile_expr(_, _, _)
RECURSIVE CompileArgs(_, _, _, _, _)
RECURSIVE VarInBind(_, _, _, _, _)

\* the loop over the arguments of a call: args[k..] are still to compile
CompileArgs(M, B, args, k, done) ==
    IF k > Len(args) THEN COk(B, done)
    ELSE Try(compile_expr(M, B, args[k]), LAMBDA a :
             CompileArgs(M, a.B, args, k + 1, Append(done, a.val)))

\* build_call: the instruction and the value it defines
EmitCall(B, fun, argsv) ==
    COk(Emit(B, Instr("call", B.next, <<fun, argsv>>)), Reg(B.next))

CompileCall(M, B, e) ==
    IF get_function(M, e.func_name) = 0 THEN CErr(B, "Unknown function.")
    ELSE Try(CompileArgs(M, B, e.args, 1, <<>>), LAMBDA as :
             EmitCall(as.B, get_function(M, e.func_name), as.val))

CompileVariable(B, e) ==
    IF HasKey(B.vars, e.name)
    THEN COk(Emit(B, Instr("load", B.next, <<Get(B.vars, e.name).id>>)),
             Reg(B.next))
    ELSE CErr(B, "Could not find a matching variable.")

\* the initial value of one binding of a VarIn
VarInInit(M, B, binding) ==
    IF binding.init = <<>> THEN COk(B, Const(RInt(0)))
    ELSE compile_expr(M, B, binding.init[1])

\* the alloca and the store of one binding, and the update of `variables`:
\* B is the state after the initial value, whose handle is initial_val
VarInStore(B, var_name, initial_val) ==
    [Emit(create_entry_block_alloca(B, var_name),
          Instr("store", 0, <<B.next, initial_val>>))
       EXCEPT !.vars = Insert(@, var_name, AllocaSlot(B, var_name))]

\* old_bindings after the binding of var_name: variables.remove(var_name)
\* gives the old binding only when there is one
PushOld(B, var_name, old_bindings) ==
    IF HasKey(B.vars, var_name)
    THEN Append(old_bindings, Get(B.vars, var_name))
    ELSE old_bindings

\* the loop over the bindings of a VarIn: variables[k..] are still to bind;
\* the result value is the list of old bindings
VarInBind(M, B, variables, k, old_bindings) ==
    IF k > Len(variables) THEN COk(B, old_bindings)
    ELSE Try(VarInInit(M, B, variables[k]), LAMBDA init :
             VarInBind(M, VarInStore(init.B, variables[k].name, init.val),
                       variables, k + 1,
                       PushOld(init.B, variables[k].name, old_bindings)))

\* the restoring loop of a VarIn: each old binding is inserted under the
\* name of its slot
RECURSIVE RestoreBindings(_, _)
RestoreBindings(vs, old_bindings) ==
    IF old_bindings = <<>> THEN vs
    ELSE RestoreBindings(Insert(vs, Head(old_bindings).name,
                                Head(old_bindings)),
                         Tail(old_bindings))

CompileVarIn(M, B, e) ==
    Try(VarInBind(M, B, e.variables, 1, <<>>), LAMBDA b :
    Try(compile_expr(M, b.B, e.body), LAMBDA body :
        COk([body.B EXCEPT !.vars = RestoreBindings(@, b.val)], body.val)))

CompileAssign(M, B, e) ==
    IF e.left.k # "Variable"
    THEN CErr(B, "Expected variable as left-hand operator of assignement.")
    ELSE Try(compile_expr(M, B, e.right), LAMBDA v :
             IF ~HasKey(v.B.vars, e.left.name)
             THEN CErr(v.B, "Undefined variable.")
             ELSE COk(Emit(v.B, Instr("store", 0,
                         <<Get(v.B.vars, e.left.name).id, v.val>>)),
                      v.val))

\* an arithmetic instruction on two values
EmitArith(B, op, a, b) ==
    COk(Emit(B, Instr(op, B.next, <<a, b>>)), Reg(B.next))

\* a comparison followed by build_unsigned_int_to_float
EmitCompare(B, a, b) ==
    COk(Emit(Emit(B, Instr("fcmp_ult", B.next, <<a, b>>)),
             Instr("uitofp", B.next + 1, <<Reg(B.next)>>)),
        Reg(B.next + 1))

\* the match on op of the Binary arm, both operands compiled
BinaryOp(M, B, op, l, r) ==
    CASE op = "+" -> EmitArith(B, "fadd", l, r)
      [] op = "-" -> EmitArith(B, "fsub", l, r)
      [] op = "*" -> EmitArith(B, "fmul", l, r)
      [] op = "/" -> EmitArith(B, "fdiv", l, r)
      [] op = "<" -> EmitCompare(B, l, r)
      [] op = ">" -> EmitCompare(B, r, l)
      [] OTHER ->
           IF get_function(M, BinaryName(op)) = 0
           THEN CErr(B, "Undefined binary operator.")
           ELSE EmitCall(B, get_function(M, BinaryName(op)), <<l, r>>)

CompileBinary(M, B, e) ==
    IF e.op = "=" THEN CompileAssign(M, B, e)
    ELSE Try(compile_expr(M, B, e.left), LAMBDA lhs :
         Try(compile_expr(M, lhs.B, e.right), LAMBDA rhs :
             BinaryOp(M, rhs.B, e.op, lhs.val, rhs.val)))

\* the comparison of the condition with 0.0, the three new blocks and the
\* conditional branch; the builder ends up in the `then` block.  B is the
\* state after the condition, whose handle is cond.
CondBranch(B, cond) ==
    PositionAtEnd(
        Emit(AppendBlock(AppendBlock(AppendBlock(
                 Emit(B, Instr("fcmp_one", B.next, <<cond, Const(RInt(0))>>)),
                 "then"), "else"), "ifcont"),
             Instr("condbr", 0,
                   <<Reg(B.next), Len(B.blocks) + 1, Len(B.blocks) + 2>>)),
        Len(B.blocks) + 1)

\* the branch to the merge block that ends an arm, and the builder moved
\* to block b
BranchTo(B, cont_bb, b) ==
    PositionAtEnd(Emit(B, Instr("br", 0, <<cont_bb>>)), b)

\* the phi of the merge block: B is positioned there
EmitPhi(B, then_val, then_bb, else_val, else_bb) ==
    COk(Emit(B, Instr("phi", B.next,
                      <<<<then_val, then_bb>>, <<else_val, else_bb>>>>)),
        Reg(B.next))

\* the Conditional arm.  nb is the number of blocks when the three blocks
\* are appended: then = nb + 1, else = nb + 2, ifcont = nb + 3.  t.B.ip and
\* el.B.ip are builder.get_insert_block() at the end of each arm.
CompileConditional(M, B, e) ==
    Try(compile_expr(M, B, e.cond), LAMBDA c :
    Try(compile_expr(M, CondBranch(c.B, c.val), e.consequence), LAMBDA t :
    Try(compile_expr(M, BranchTo(t.B, Len(c.B.blocks) + 3,
                                 Len(c.B.blocks) + 2),
                     e.alternative), LAMBDA el :
        EmitPhi(BranchTo(el.B, Len(c.B.blocks) + 3, Len(c.B.blocks) + 3),
                t.val, t.B.ip, el.val, el.B.ip))))

\* the step of a For: 1.0 when there is none
ForStepValue(M, B, e) ==
    IF e.step = <<>> THEN COk(B, Const(RInt(1)))
    ELSE compile_expr(M, B, e.step[1])

\* the load of the loop variable, the addition of the step and the store,
\* then the comparison of the end condition with 0.0
ForAdvance(B, slot, step, end_cond) ==
    Emit(Emit(Emit(Emit(B,
        Instr("load", B.next, <<slot>>)),
        Instr("fadd", B.next + 1, <<Reg(B.next), step>>)),
        Instr("store", 0, <<slot, Reg(B.next + 1)>>)),
        Instr("fcmp_one", B.next + 2, <<end_cond, Const(RInt(0))>>))

\* the `afterloop` block, the back edge and the builder moved after the
\* loop; cond is the handle of the comparison
ForClose(B, cond, loop_bb) ==
    PositionAtEnd(
        Emit(AppendBlock(B, "afterloop"),
             Instr("condbr", 0, <<cond, loop_bb, Len(B.blocks) + 1>>)),
        Len(B.blocks) + 1)

\* variables.remove(var_name), then the old binding back when there was one
ForRestore(vs, var_name, old_val) ==
    IF old_val = <<>> THEN Remove(vs, var_name)
    ELSE Insert(Remove(vs, var_name), var_name, old_val[1])

(* A For arm whose value is the step instead of the constant 0.0.  That a   *)
(* loop always evaluates to 0.0 rests on ForTailCompile not behaving like   *)
(* this.                                                                    *)
ForTailCompileStepValue(M, B, e, start_alloca, loop_bb, old_val) ==
    Try(ForStepValue(M, B, e), LAMBDA step :
    Try(compile_expr(M, step.B, e.end), LAMBDA end_cond :
        COk([ForClose(ForAdvance(end_cond.B, start_alloca.id, step.val,
                                 end_cond.val),
                      Reg(end_cond.B.next + 2), loop_bb)
               EXCEPT !.vars = ForRestore(@, e.var_name, old_val)],
            step.val)))

\* the For arm from the step on: B is positioned after the body
ForTailCompile(M, B, e, start_alloca, loop_bb, old_val) ==
    Try(ForStepValue(M, B, e), LAMBDA step :
    Try(compile_expr(M, step.B, e.end), LAMBDA end_cond :
        COk([ForClose(ForAdvance(end_cond.B, start_alloca.id, step.val,
                                 end_cond.val),
                      Reg(end_cond.B.next + 2), loop_bb)
               EXCEPT !.vars = ForRestore(@, e.var_name, old_val)],
            Const(RInt(0)))))

\* the store of the start value, the `loop` block and the branch into it,
\* and the loop variable bound to its slot
ForEnter(B, var_name, start_alloca, start_val) ==
    [PositionAtEnd(
         Emit(AppendBlock(Emit(B, Instr("store", 0,
                                        <<start_alloca.id, start_val>>)),
                          "loop"),
              Instr("br", 0, <<Len(B.blocks) + 1>>)),
         Len(B.blocks) + 1)
       EXCEPT !.vars = Insert(@, var_name, start_alloca)]

\* variables.remove(var_name) as an Option
OldVal(vs, var_name) ==
    IF HasKey(vs, var_name) THEN <<Get(vs, var_name)>> ELSE <<>>

CompileFor(M, B, e) ==
    Try(compile_expr(M, create_entry_block_alloca(B, e.var_name), e.start),
        LAMBDA start :
    Try(compile_expr(M, ForEnter(start.B, e.var_name,
                                 AllocaSlot(B, e.var_name), start.val),
                     e.body), LAMBDA body :
        ForTailCompile(M, body.B, e, AllocaSlot(B, e.var_name),
                       Len(start.B.blocks) + 1,
                       OldVal(start.B.vars, e.var_name))))

compile_expr(M, B, e) ==
    CASE e.k = "Number" -> COk(B, Const(e.v))
      [] e.k = "Variable" -> CompileVariable(B, e)
      [] e.k = "VarIn" -> CompileVarIn(M, B, e)
      [] e.k = "Binary" -> CompileBinary(M, B, e)
      [] e.k = "Call" -> CompileCall(M, B, e)
      [] e.k = "Conditional" -> CompileConditional(M, B, e)
      [] e.k = "For" -> CompileFor(M, B, e)

----------------------------------------------------------------------------
(* The backend module M is the sequence of the functions added to it, each  *)
(* [name, renamed, args, blocks]; blocks = <<>> is a declaration.  A        *)
(* function added under a name the module already holds is given another    *)
(* name by the backend (renamed = TRUE) and get_function does not find it.  *)

FunctionValue(M, proto) ==
    [name    |-> proto.name,
     renamed |-> get_function(M, proto.name) # 0,
     args    |-> proto.args,
     blocks  |-> <<>>]

\* compile_prototype: module.add_function
compile_prototype(M, proto) == Append(M, FunctionValue(M, proto))

\* the loop of compile_fn that binds each parameter to a fresh slot
RECURSIVE BindParams(_, _, _)
BindParams(B, args, i) ==
    IF i > Len(args) THEN B
    ELSE BindParams(
           [Emit(create_entry_block_alloca(B, args[i]),
                 Instr("store", 0, <<B.next, Arg(i)>>))
              EXCEPT !.vars = Insert(@, args[i], AllocaSlot(B, args[i]))],
           args, i + 1)

\* one instruction passes verification; as far as this compiler can fail
\* it: a call must pass as many arguments as the callee declares
VerifyInstr(M, ins) ==
    ins.op = "call" => Len(ins.args[2]) = Len(M[ins.args[1]].args)

\* function.verify(true)
verify(M, blocks) ==
    \A b \in 1..Len(blocks) : \A k \in 1..Len(blocks[b].instrs) :
        VerifyInstr(M, blocks[b].instrs[k])

\* the building state when the body starts to compile: the parameters
\* carry their names (compile_prototype's set_name) and the entry block
\* holds their slots
EntryState(proto) ==
    BindParams([blocks |-> <<Block("entry")>>, ip |-> 1, next |-> 1,
                vars |-> {},
                names |-> {proto.args[i] : i \in 1..Len(proto.args)}],
               proto.args, 1)

\* function.delete(): the function compile_prototype added is the last one
DeleteLast(M) == SubSeq(M, 1, Len(M) - 1)

SetBlocks(M, blocks) == [M EXCEPT ![Len(M)].blocks = blocks]

CResult(st, val, M, vs) == [st |-> st, val |-> val, module |-> M, vars |-> vs]

\* compile_fn after build_return: verification, and the delete when it fails
VerifyFn(M1, B) ==
    IF verify(M1, B.blocks)
    THEN CResult("ok", Len(M1), SetBlocks(M1, B.blocks), B.vars)
    ELSE CResult("err", "Invalid generated function.", DeleteLast(M1), B.vars)

\* compile_fn from the result of compile_expr on the body: an Err returns
\* at the `?` with the function as it is in the module
FinishFn(M1, body) ==
    IF body.st # "ok"
    THEN CResult("err", body.val, SetBlocks(M1, body.B.blocks), body.B.vars)
    ELSE VerifyFn(M1, Emit(body.B, Instr("ret", 0, <<body.val>>)))

\* compile_fn with the prototype compiled into M1
CompileBody(M1, function) ==
    IF function.body = <<>> THEN CResult("ok", Len(M1), M1, {})
    ELSE FinishFn(M1, compile_expr(M1, EntryState(function.prototype),
                                   function.body[1]))

(* compile_fn, and Compiler::compile which only builds the Compiler around  *)
(* it.  The result is [st, val, module, vars]: val is the index of the      *)
(* routine (ok) or the message (err), module the backend module afterwards, *)
(* vars the Compiler's variables map when compile_fn returns.               *)
compile_fn(M0, function) ==
    CompileBody(compile_prototype(M0, function.prototype), function)

----------------------------------------------------------------------------
(* Execution of a routine of the module, used to state what a lowered       *)
(* routine returns.  regs and mem are sets of <<id, value>> pairs.  The     *)
(* result is [st |-> "ret" | "fuel" | "stuck", v]; "stuck" is a division    *)
(* by zero, a load of a slot never stored, or a call of a declaration.      *)

EvalV(v, regs, argv) ==
    CASE v.c = "const" -> v.x
      [] v.c = "reg" -> Get(regs, v.x)
      [] v.c = "arg" -> argv[v.x]

RBool(b) == IF b THEN RInt(1) ELSE RInt(0)

RECURSIVE EvalArgs(_, _, _)
EvalArgs(vs, regs, argv) ==
    IF vs = <<>> THEN <<>>
    ELSE <<EvalV(Head(vs), regs, argv)>> \o EvalArgs(Tail(vs), regs, argv)

RECURSIVE Exec(_, _, _, _, _, _, _, _, _)
Exec(M, f, argv, blk, idx, prev, regs, mem, fuel) ==
    LET ins == M[f].blocks[blk].instrs[idx]
        a   == ins.args
        val(k) == EvalV(a[k], regs, argv)
        next(r) == Exec(M, f, argv, blk, idx + 1, prev,
                        Insert(regs, ins.id, r), mem, fuel - 1)
        goto(b) == Exec(M, f, argv, b, 1, blk, regs, mem, fuel - 1)
        Stuck == [st |-> "stuck", v |-> RInt(0)]
    IN  IF fuel = 0 THEN [st |-> "fuel", v |-> RInt(0)]
        ELSE IF idx > Len(M[f].blocks[blk].instrs) THEN Stuck
        ELSE CASE ins.op = "alloca" ->
                    Exec(M, f, argv, blk, idx + 1, prev, regs, mem, fuel - 1)
               [] ins.op = "store" ->
                    Exec(M, f, argv, blk, idx + 1, prev, regs,
                         Insert(mem, a[1], val(2)), fuel - 1)
               [] ins.op = "load" ->
                    IF HasKey(mem, a[1]) THEN next(Get(mem, a[1])) ELSE Stuck
               [] ins.op = "fadd" -> next(RAdd(val(1), val(2)))
               [] ins.op = "fsub" -> next(RSub(val(1), val(2)))
               [] ins.op = "fmul" -> next(RMul(val(1), val(2)))
               [] ins.op = "fdiv" ->
                    IF val(2).n = 0 THEN Stuck
                    ELSE next(Rat(val(1).n * val(2).d, val(1).d * val(2).n))
               [] ins.op = "fcmp_ult" -> next(RBool(RLess(val(1), val(2))))
               [] ins.op = "fcmp_one" -> next(RBool(val(1) # val(2)))
               [] ins.op = "uitofp" -> next(val(1))
               [] ins.op = "call" ->
                    IF M[a[1]].blocks = <<>> THEN Stuck
                    ELSE LET r == Exec(M, a[1], EvalArgs(a[2], regs, argv),
                                       1, 1, 0, {}, {}, fuel - 1)
                         IN  IF r.st = "ret" THEN next(r.v) ELSE r
               [] ins.op = "br" -> goto(a[1])
               [] ins.op = "condbr" ->
                    IF val(1) = RInt(1) THEN goto(a[2]) ELSE goto(a[3])
               [] ins.op = "phi" ->
                    IF a[1][2] = prev
                    THEN next(EvalV(a[1][1], regs, argv))
                    ELSE next(EvalV(a[2][1], regs, argv))
               [] ins.op = "ret" -> [st |-> "ret", v |-> val(1)]

\* the routine f of module M called with the arguments argv
Run(M, f, argv, fuel) == Exec(M, f, argv, 1, 1, 0, {}, {}, fuel)

----------------------------------------------------------------------------
(* Inputs.  A source text is written as a sequence of words; Text spells    *)
(* it out as characters.  A word that Word does not list is a single        *)
(* character.                                                               *)

Word(w) ==
    CASE w = "def" -> <<"d", "e", "f">>
      [] w = "extern" -> <<"e", "x", "t", "e", "r", "n">>
      [] w = "if" -> <<"i", "f">>
      [] w = "then" -> <<"t", "h", "e", "n">>
      [] w = "else" -> <<"e", "l", "s", "e">>
      [] w = "for" -> <<"f", "o", "r">>
      [] w = "in" -> <<"i", "n">>
      [] w = "var" -> <<"v", "a", "r">>
      [] w = "unary" -> <<"u", "n", "a", "r", "y">>
      [] w = "binary" -> <<"b", "i", "n", "a", "r", "y">>
      [] w = "foo" -> <<"f", "o", "o">>
      [] OTHER -> <<w>>

RECURSIVE Text(_)
Text(ws) == IF ws = <<>> THEN <<>> ELSE Word(Head(ws)) \o Text(Tail(ws))

\* 1 2\n
SrcTrailing ==
    Text(<<"1", " ", "2", "\n">>)

\* x\n
SrcVar ==
    Text(<<"x", "\n">>)

\* x
SrcVarAtEnd ==
    Text(<<"x">>)

\* foo(1)
SrcCall ==
    Text(<<"foo", "(", "1", ")">>)

\* foo()
SrcCallEmpty ==
    Text(<<"foo", "(", ")">>)

\* def 
SrcDefOnly ==
    Text(<<"def", " ">>)

\* def foo(a b) a+b
SrcMissingComma ==
    Text(<<"def", " ", "foo", "(", "a", " ", "b", ")", " ", "a", "+", "b">>)

\* if 0 then 1 else 2
SrcIf0 ==
    Text(<<"if", " ", "0", " ", "then", " ", "1", " ", "else", " ", "2">>)

\* if 1 then 1 else 2
SrcIf1 ==
    Text(<<"if", " ", "1", " ", "then", " ", "1", " ", "else", " ", "2">>)

\* if 0 then 1 else 2\n
SrcIf0Nl ==
    Text(<<"if", " ", "0", " ", "then", " ", "1", " ", "else", " ", "2",
           "\n">>)

\* for i = 1, i < 5, 1 in i\n
SrcFor ==
    Text(<<"for", " ", "i", " ", "=", " ", "1", ",", " ", "i", " ", "<",
           " ", "5", ",", " ", "1", " ", "in", " ", "i", "\n">>)

\* var x = 1 in (var x = 2 in x) + x\n
SrcShadow ==
    Text(<<"var", " ", "x", " ", "=", " ", "1", " ", "in", " ", "(", "var",
           " ", "x", " ", "=", " ", "2", " ", "in", " ", "x", ")", " ",
           "+", " ", "x", "\n">>)

\* (var x = 1 in x) + x\n
SrcLeak ==
    Text(<<"(", "var", " ", "x", " ", "=", " ", "1", " ", "in", " ", "x",
           ")", " ", "+", " ", "x", "\n">>)

\* def g() x\n
SrcDefBad ==
    Text(<<"def", " ", "g", "(", ")", " ", "x", "\n">>)

\* def binary| 5 (a, b) a+b\n
SrcBinDecl5 ==
    Text(<<"def", " ", "binary", "|", " ", "5", " ", "(", "a", ",", " ",
           "b", ")", " ", "a", "+", "b", "\n">>)

\* 1|2<3\n
SrcChain1 ==
    Text(<<"1", "|", "2", "<", "3", "\n">>)

(* The source texts a session draws its definitions from: the texts named   *)
(* above and the ones spelled out here.                                     *)
Programs ==
    {SrcTrailing, SrcMissingComma, SrcBinDecl5, SrcChain1,
     SrcIf0, SrcIf0Nl, SrcIf1, SrcFor,
     SrcShadow, SrcLeak, SrcCallEmpty, SrcCall,
     SrcVar, SrcVarAtEnd, SrcDefOnly, SrcDefBad}
    \cup
    {
      \* (the empty text)
      Text(<<>>),
      \* 1+2*3\n
      Text(<<"1", "+", "2", "*", "3", "\n">>),
      \* extern 
      Text(<<"extern", " ">>),
      \* def f(a, 
      Text(<<"def", " ", "f", "(", "a", ",", " ">>),
      \* var x = 1 
      Text(<<"var", " ", "x", " ", "=", " ", "1", " ">>),
      \* def foo(a, b c) a\n
      Text(<<"def", " ", "foo", "(", "a", ",", " ", "b", " ", "c", ")", " ",
             "a", "\n">>),
      \* extern foo(a b)
      Text(<<"extern", " ", "foo", "(", "a", " ", "b", ")">>),
      \* for i = 1, i < 3 in i\n
      Text(<<"for", " ", "i", " ", "=", " ", "1", ",", " ", "i", " ", "<",
             " ", "3", " ", "in", " ", "i", "\n">>),
      \* for i = 1, 0, 2 in 7\n
      Text(<<"for", " ", "i", " ", "=", " ", "1", ",", " ", "0", ",", " ",
             "2", " ", "in", " ", "7", "\n">>),
      \* (for i = 1, i < 3 in i) + 1\n
      Text(<<"(", "for", " ", "i", " ", "=", " ", "1", ",", " ", "i", " ",
             "<", " ", "3", " ", "in", " ", "i", ")", " ", "+", " ", "1", "\n">>),
      \* (for i = 1, i < 3 in i) + i\n
      Text(<<"(", "for", " ", "i", " ", "=", " ", "1", ",", " ", "i", " ",
             "<", " ", "3", " ", "in", " ", "i", ")", " ", "+", " ", "i", "\n">>),
      \* def f(a) a+1\n
      Text(<<"def", " ", "f", "(", "a", ")", " ", "a", "+", "1", "\n">>),
      \* def g(a) for a = 1, a < 3 in a\n
      Text(<<"def", " ", "g", "(", "a", ")", " ", "for", " ", "a", " ", "=",
             " ", "1", ",", " ", "a", " ", "<", " ", "3", " ", "in", " ",
             "a", "\n">>),
      \* def g(a) var a = 2 in a\n
      Text(<<"def", " ", "g", "(", "a", ")", " ", "var", " ", "a", " ", "=",
             " ", "2", " ", "in", " ", "a", "\n">>),
      \* def h() f(1, 2)\n
      Text(<<"def", " ", "h", "(", ")", " ", "f", "(", "1", ",", " ", "2",
             ")", "\n">>),
      \* extern f(a)
      Text(<<"extern", " ", "f", "(", "a", ")">>),
      \* f(2)+1\n
      Text(<<"f", "(", "2", ")", "+", "1", "\n">>),
      \* def binary| (a, b) a+b\n
      Text(<<"def", " ", "binary", "|", " ", "(", "a", ",", " ", "b", ")",
             " ", "a", "+", "b", "\n">>),
      \* def binary| 10 (a, b) a|b<a\n
      Text(<<"def", " ", "binary", "|", " ", "1", "0", " ", "(", "a", ",",
             " ", "b", ")", " ", "a", "|", "b", "<", "a", "\n">>),
      \* def binary| 30 (a, b) a|b|a\n
      Text(<<"def", " ", "binary", "|", " ", "3", "0", " ", "(", "a", ",",
             " ", "b", ")", " ", "a", "|", "b", "|", "a", "\n">>),
      \* def binary| 5 (a b) a\n
      Text(<<"def", " ", "binary", "|", " ", "5", " ", "(", "a", " ", "b",
             ")", " ", "a", "\n">>),
      \* def unary! (a) a\n
      Text(<<"def", " ", "unary", "!", " ", "(", "a", ")", " ", "a", "\n">>),
      \* 1<2|3\n
      Text(<<"1", "<", "2", "|", "3", "\n">>),
      \* 1|2|3\n
      Text(<<"1", "|", "2", "|", "3", "\n">>),
      \* 1+2|3\n
      Text(<<"1", "+", "2", "|", "3", "\n">>),
      \* 1|2+3\n
      Text(<<"1", "|", "2", "+", "3", "\n">>),
      \* 1*2|3\n
      Text(<<"1", "*", "2", "|", "3", "\n">>),
      \* 1|2*3\n
      Text(<<"1", "|", "2", "*", "3", "\n">>),
      \* # c\n1\n
      Text(<<"#", " ", "c", "\n", "1", "\n">>),
      \* 1 # c\n
      Text(<<"1", " ", "#", " ", "c", "\n">>),
      \* f()+1\n
      Text(<<"f", "(", ")", "+", "1", "\n">>),
      \* g(f())\n
      Text(<<"g", "(", "f", "(", ")", ")", "\n">>)
    }

Num(k) == ENumber(RInt(k))
Var(c) == EVariable(<<c>>)
Anon(body) ==
    Function(Prototype(ANONYMOUS_FUNCTION_NAME, <<>>, FALSE, 0), <<body>>,
             TRUE)

(* Functions handed to Compiler::compile directly, as its public signature  *)
(* allows.                                                                  *)
AstIf0 == Anon(EConditional(Num(0), Num(1), Num(2)))
AstIf1 == Anon(EConditional(Num(1), Num(1), Num(2)))
AstIf5 == Anon(EConditional(Num(5), Num(3), Num(4)))
AstIfNested ==
    Anon(EConditional(EConditional(Num(0), Num(0), Num(1)),
                      EConditional(Num(1), Num(3), Num(4)),
                      Num(5)))
AstIfLoop ==
    Anon(EConditional(Num(0), Num(7),
           EFor(<<"i">>, Num(1), EBinary("<", Var("i"), Num(3)), <<>>,
                Var("i"))))
AstIfSum ==
    Anon(EBinary("+", EConditional(Num(0), Num(1), Num(2)),
                      EConditional(Num(1), Num(10), Num(20))))
AstForIf ==
    Anon(EFor(<<"i">>, Num(0), EBinary("<", Var("i"), Num(2)), <<Num(1)>>,
              EConditional(Var("i"), Num(1), Num(2))))

Asts == {AstIf0, AstIf1, AstIf5, AstIfNested, AstIfLoop, AstIfSum, AstForIf}

\* the table the caller of Parser::new seeds for the built-in operators
StandardTable ==
    {<<"=", 2>>, <<"<", 10>>, <<"+", 20>>, <<"-", 20>>, <<"*", 40>>,
     <<"/", 40>>}

SeedTables == {StandardTable, {}}

----------------------------------------------------------------------------
(* Bounds.                                                                  *)

\* definitions one session hands to the pipeline
MaxDefs == 2

\* instructions a routine may execute when it is run
Fuel == 60

\* length of the texts the lexer is run on exhaustively
MaxTextLen == 3

LexAlphabet == {"1", "2", ".", " ", "(", "a"}

ShortTexts == UNION {[1..k -> LexAlphabet] : k \in 0..MaxTextLen}

(* The texts the lexer is run on: the short ones, the programs, and texts   *)
(* that end in a word or inside a comment.                                  *)
LexInputs ==
    ShortTexts \cup Programs \cup
    {
      \* then
      Text(<<"then">>),
      \* then\n
      Text(<<"then", "\n">>),
      \* foo
      Text(<<"foo">>),
      \* # c
      Text(<<"#", " ", "c">>),
      \* 1 #
      Text(<<"1", " ", "#">>)
    }

----------------------------------------------------------------------------
(* The state machine.                                                       *)

NoResult == [st |-> "none", val |-> ""]

NoLexer == [input |-> <<>>, chars |-> 0, pos |-> 0]

PipeInit ==
    /\ pc = "idle"
    /\ input = <<>>
    /\ tokens = <<>>
    /\ pos = 0
    /\ presult = NoResult
    /\ module = <<>>
    /\ cresult = NoResult
    /\ ndefs = 0

Init ==
    /\ lexer = NoLexer
    /\ collected = <<>>
    /\ lexst = "run"
    /\ prec \in SeedTables
    /\ PipeInit

\* the driver is between two definitions
Between == pc \in {"idle", "parsed", "compiled"} /\ ndefs < MaxDefs

(* Parser::new(input, op_precedence): the whole text is lexed before the    *)
(* Parser exists.  A panic of the lexer ends the program; a comment that    *)
(* no newline ends never returns.                                           *)
NewParser(src) ==
    /\ Between
    /\ \E l \in {Collect(src, 0, 0, <<>>)} :
           /\ pc' = (IF l.st = "ok" THEN "parser" ELSE l.st)
           /\ tokens' = l.toks
    /\ input' = src
    /\ pos' = 0
    /\ presult' = NoResult
    /\ cresult' = NoResult
    /\ ndefs' = ndefs + 1
    /\ UNCHANGED <<prec, module, lexVars>>

\* Parser::parse
Parse ==
    /\ pc = "parser"
    /\ \E r \in {parse(tokens, pos, prec)} :
           /\ pos' = r.pos
           /\ prec' = r.prec
           /\ presult' = [st |-> r.st, val |-> r.val]
           /\ pc' = (IF r.st = "panic" THEN "panic" ELSE "parsed")
    /\ UNCHANGED <<input, tokens, module, cresult, ndefs, lexVars>>

\* Compiler::compile on the Function the parser returned
Compile ==
    /\ pc = "parsed"
    /\ presult.st = "ok"
    /\ \E c \in {compile_fn(module, presult.val)} :
           /\ module' = c.module
           /\ cresult' = [st |-> c.st, val |-> c.val, vars |-> c.vars]
    /\ pc' = "compiled"
    /\ UNCHANGED <<input, tokens, pos, prec, presult, ndefs, lexVars>>

\* Compiler::compile on a Function its caller built
CompileFunction(f) ==
    /\ Between
    /\ \E c \in {compile_fn(module, f)} :
           /\ module' = c.module
           /\ cresult' = [st |-> c.st, val |-> c.val, vars |-> c.vars]
    /\ pc' = "compiled"
    /\ presult' = [st |-> "given", val |-> f]
    /\ input' = <<>>
    /\ tokens' = <<>>
    /\ pos' = 0
    /\ ndefs' = ndefs + 1
    /\ UNCHANGED <<prec, lexVars>>

Next ==
    \/ \E src \in Programs : NewParser(src)
    \/ Parse
    \/ Compile
    \/ \E f \in Asts : CompileFunction(f)

Spec == Init /\ [][Next]_vars

(* The lexer alone: Iterator::next is called until it yields None.          *)
InitLex ==
    /\ lexer \in {[input |-> src, chars |-> 0, pos |-> 0] : src \in LexInputs}
    /\ collected = <<>>
    /\ lexst = "run"
    /\ prec = StandardTable
    /\ PipeInit

\* Iterator::next of Lexer
LexerNext ==
    /\ lexst = "run"
    /\ \E r \in {LexOne(lexer.input, lexer.chars, lexer.pos)} :
           /\ lexer' = [lexer EXCEPT !.chars = r.i, !.pos = r.p]
           /\ collected' = (IF r.r = "tok" THEN Append(collected, r.tok)
                            ELSE collected)
           /\ lexst' = (CASE r.r = "tok" -> "run"
                          [] r.r = "eof" -> "done"
                          [] OTHER -> r.r)
    /\ UNCHANGED pipeVars

NextLex == LexerNext

SpecLex == InitLex /\ [][NextLex]_vars

----------------------------------------------------------------------------
(* Properties.  pc = "parser" holds exactly before Parser::parse runs,      *)
(* pc = "parsed" after it returned, pc = "panic" after it panicked, and     *)
(* pc = "compiled" after Compiler::compile returned.                        *)

(* C1: whenever Parser::parse returns success, the parser position equals   *)
(* the number of tokens; and whenever the definition, external declaration  *)
(* or bare expression that parse() dispatched to was parsed and left a      *)
(* token unconsumed, parse() returns the failure "Unexpected token after    *)
(* parsed expression." instead of a Function, the position staying at the   *)
(* first unconsumed token.                                                  *)
C1_ParseConsumesAll ==
    [][pc = "parser" =>
         /\ (presult'.st = "ok" => pos' = Len(tokens'))
         /\ (~at_end(tokens, pos) =>
               \A item \in {ParseItem(tokens, pos, prec)} :
                   (item.st = "ok" /\ ~at_end(tokens, item.pos)) =>
                       /\ presult' =
                            [st  |-> "err",
                             val |-> "Unexpected token after parsed expression."]
                       /\ pos' = item.pos
                       /\ pos' < Len(tokens'))]_vars

\* `1 2`: the expression 1 was parsed, the token 2 remains, parse() failed
C1_TrailingTokenRejected ==
    /\ pc = "parsed"
    /\ input = SrcTrailing
    /\ presult = [st  |-> "err",
                  val |-> "Unexpected token after parsed expression."]
    /\ pos = 1
    /\ Len(tokens) = 2

(* C2: Parser::parse never aborts the program: whatever the tokens, it      *)
(* returns a Function or a failure.  (It does abort: curr() indexes the     *)
(* tokens without a bounds check.)                                          *)
C2_ParseNeverAborts == presult.st # "panic" /\ pc # "panic"

\* `def `: parse_prototype calls curr() at the end of the tokens
C2_AbortAfterDef ==
    /\ pc = "panic"
    /\ input = SrcDefOnly
    /\ tokens = <<Tok("Def")>>
    /\ presult.st = "panic"

(* C3: when the tokens are `def` or `extern`, a name, `(`, identifiers      *)
(* separated by commas and then two identifiers with no comma between them  *)
(* (the second at position k), parse() returns the failure "Expected ','    *)
(* or ')' character in prototype declaration.", no Function is produced,    *)
(* and the parser stops at the second identifier: no token from there on    *)
(* is consumed.                                                             *)
C3_MissingCommaFails ==
    \A k \in 4..(Len(tokens) - 1) :
        ( /\ pc \in {"parsed", "panic", "compiled"}
          /\ tokens[1].t \in {"Def", "Extern"}
          /\ tokens[2].t = "Ident"
          /\ tokens[3].t = "LParen"
          /\ k % 2 = 0
          /\ \A j \in 4..k :
                 tokens[j].t = (IF j % 2 = 0 THEN "Ident" ELSE "Comma")
          /\ tokens[k + 1].t = "Ident" )
        =>
        ( /\ pc = "parsed"
          /\ presult =
               [st  |-> "err",
                val |-> "Expected ',' or ')' character in prototype declaration."]
          /\ pos = k )

\* `def foo(a b) a+b`: the parse failed at b
C3_MissingCommaRejected ==
    /\ pc = "parsed"
    /\ input = SrcMissingComma
    /\ tokens[5] = TIdent(<<"b">>)
    /\ presult.st = "err"
    /\ pos = 4

(* C4: a parse whose tokens start with `def` or `extern`, `binary`, an      *)
(* operator op and an optional precedence literal p, and whose prototype    *)
(* parses, leaves the table with exactly one entry for op, holding p (0     *)
(* when there is no literal); the body of the declaration is what           *)
(* parse_expr yields under the table so updated; no step other than a       *)
(* parse changes the table, so the entry is in effect for the parses that   *)
(* follow; and under the table in effect a chain `x o1 y o2 z` of numbers   *)
(* and operators of the table groups as x o1 (y o2 z) when o1 has the       *)
(* smaller precedence and as (x o1 y) o2 z otherwise, so a declared         *)
(* operator groups to the left with operators of its own precedence and     *)
(* binds looser than operators of a greater one.                            *)
C4_DeclaredPrecedenceInEffect ==
    [][/\ (pc # "parser" => prec' = prec)
       /\ ( ( /\ pc = "parser"
              /\ Len(tokens) >= 4
              /\ tokens[1].t \in {"Def", "Extern"}
              /\ tokens[2].t = "Binary"
              /\ tokens[3].t = "Op" )
            => \A proto \in {parse_prototype(tokens, 1, prec)} :
                 proto.st = "ok" =>
                   /\ {e \in prec' : e[1] = tokens[3].x}
                        = {<<tokens[3].x,
                             IF tokens[4].t = "Number"
                             THEN AsUsize(tokens[4].x) ELSE 0>>}
                   /\ proto.val.prec = Get(prec', tokens[3].x)
                   /\ (tokens[1].t = "Def" /\ presult'.st = "ok" =>
                         presult'.val.body =
                           <<parse_expr(tokens, proto.pos, prec').val>>) )
       /\ ( ( /\ pc' = "parsed"
              /\ Len(tokens') = 5
              /\ \A j \in {1, 3, 5} : tokens'[j].t = "Number"
              /\ \A j \in {2, 4} : /\ tokens'[j].t = "Op"
                                   /\ HasKey(prec', tokens'[j].x) )
            => /\ presult'.st = "ok"
               /\ presult'.val.body =
                    <<IF Get(prec', tokens'[2].x) < Get(prec', tokens'[4].x)
                      THEN EBinary(tokens'[2].x, ENumber(tokens'[1].x),
                                   EBinary(tokens'[4].x, ENumber(tokens'[3].x),
                                           ENumber(tokens'[5].x)))
                      ELSE EBinary(tokens'[4].x,
                                   EBinary(tokens'[2].x, ENumber(tokens'[1].x),
                                           ENumber(tokens'[3].x)),
                                   ENumber(tokens'[5].x))>> )]_vars

\* `|` was declared with precedence 5 by an earlier parse; in `1|2<3` it
\* binds looser than `<` (precedence 10)
C4_DeclaredOperatorUsed ==
    /\ pc = "parsed"
    /\ ndefs = 2
    /\ input = SrcChain1
    /\ <<"|", 5>> \in prec
    /\ <<"<", 10>> \in prec
    /\ presult.st = "ok"
    /\ presult.val.body =
         <<EBinary("|", Num(1), EBinary("<", Num(2), Num(3)))>>

(* C5: the texts `if 0 then 1 else 2` and `if 1 then 1 else 2` parse, are   *)
(* lowered, and the routines return 2.0 and 1.0.  (They do not parse: the   *)
(* lexer has no `then` keyword, so parse_conditional_expr never sees        *)
(* Token::Then.)                                                            *)
C5_IfTextLowers ==
    /\ (pc = "parsed" /\ input \in {SrcIf0, SrcIf0Nl, SrcIf1} =>
          presult.st = "ok")
    /\ (pc = "compiled" /\ input \in {SrcIf0, SrcIf0Nl} =>
          /\ cresult.st = "ok"
          /\ Run(module, cresult.val, <<>>, Fuel) =
               [st |-> "ret", v |-> RInt(2)])
    /\ (pc = "compiled" /\ input = SrcIf1 =>
          /\ cresult.st = "ok"
          /\ Run(module, cresult.val, <<>>, Fuel) =
               [st |-> "ret", v |-> RInt(1)])

\* `if 0 then 1 else 2` followed by a newline: `then` came as an identifier
C5_ThenIsAnIdentifier ==
    /\ pc = "parsed"
    /\ input = SrcIf0Nl
    /\ tokens[3] = TIdent(<<"t", "h", "e", "n">>)
    /\ presult = [st |-> "err", val |-> "Expected 'then' keyword."]

(* C6: when a function whose body is a For expression has been lowered,     *)
(* the routine returns the constant 0.0: every `ret` of it has the          *)
(* constant 0.0 as operand, and a run of it that returns, returns 0.0,      *)
(* whatever the arguments.  When the body is the sum of a For expression    *)
(* and a number, a run that returns, returns that number: the value of the  *)
(* loop is 0.0 there too.                                                   *)
C6_ForValueIsZero ==
    (pc = "compiled" /\ cresult.st = "ok" /\ presult.val.body # <<>>) =>
      \A body \in {presult.val.body[1]} : \A f \in {module[cresult.val]} :
        /\ body.k = "For" =>
             /\ \E b \in 1..Len(f.blocks) : \E k \in 1..Len(f.blocks[b].instrs) :
                    f.blocks[b].instrs[k].op = "ret"
             /\ \A b \in 1..Len(f.blocks) : \A k \in 1..Len(f.blocks[b].instrs) :
                    f.blocks[b].instrs[k].op = "ret" =>
                        f.blocks[b].instrs[k].args = <<Const(RInt(0))>>
             /\ \A argv \in [1..Len(f.args) -> {RInt(0), RInt(7)}] :
                    \A r \in {Run(module, cresult.val, argv, Fuel)} :
                        r.st = "ret" => r.v = RInt(0)
        /\ ( /\ body.k = "Binary" /\ body.op = "+"
             /\ body.left.k = "For" /\ body.right.k = "Number" ) =>
             \A r \in {Run(module, cresult.val, <<>>, Fuel)} :
                 r.st = "ret" => r.v = body.right.v

\* `for i = 1, i < 5, 1 in i` was lowered and the routine ran to its return
C6_LoopRanAndReturnedZero ==
    /\ pc = "compiled"
    /\ input = SrcFor
    /\ cresult.st = "ok"
    /\ presult.val.body[1].k = "For"
    /\ Run(module, cresult.val, <<>>, Fuel) = [st |-> "ret", v |-> RInt(0)]

(* C7: when a function whose body is a VarIn or a For expression has been   *)
(* lowered successfully, the name->slot map is the map it was before the    *)
(* body: the one that binds the parameters.  (It is not: VarIn never        *)
(* removes a name that had no binding before, and restores an old binding   *)
(* under the name of its slot.)                                             *)
C7_MapRestored ==
    ( /\ pc = "compiled"
      /\ cresult.st = "ok"
      /\ presult.val.body # <<>>
      /\ presult.val.body[1].k \in {"VarIn", "For"} )
    => cresult.vars = EntryState(presult.val.prototype).vars

\* `var x = 1 in (var x = 2 in x) + x` returns 3.0 as claimed, and leaves x
\* bound although nothing was bound before
C7_NameLeftBound ==
    /\ pc = "compiled"
    /\ input = SrcShadow
    /\ cresult.st = "ok"
    /\ presult.val.body[1].k = "VarIn"
    /\ Run(module, cresult.val, <<>>, Fuel) = [st |-> "ret", v |-> RInt(3)]
    /\ EntryState(presult.val.prototype).vars = {}
    /\ HasKey(cresult.vars, <<"x">>)

(* C8: the texts `foo(1)` and `foo()`, which call a function the module     *)
(* does not declare, and the text `x`, with or without a newline after it,  *)
(* which reads a variable that is not bound, parse successfully and then    *)
(* fail in lowering with "Unknown function." and "Could not find a          *)
(* matching variable.".  (`foo()` and `x` at the end of the text fail in    *)
(* the parser.)                                                             *)
C8_UnresolvedNamesFailInLowering ==
    /\ (pc = "parsed" /\ input \in {SrcCall, SrcCallEmpty, SrcVar, SrcVarAtEnd}
          => presult.st = "ok")
    /\ (pc = "compiled" /\ input \in {SrcCall, SrcCallEmpty}
          => cresult.st = "err" /\ cresult.val = "Unknown function.")
    /\ (pc = "compiled" /\ input \in {SrcVar, SrcVarAtEnd}
          => /\ cresult.st = "err"
             /\ cresult.val = "Could not find a matching variable.")

\* `foo()`: parse_id_expr returned the call without consuming `)`, and
\* parse() rejected the token that was left
C8_EmptyCallFailsInParser ==
    /\ pc = "parsed"
    /\ input = SrcCallEmpty
    /\ Len(tokens) = 3
    /\ pos = 2
    /\ presult = [st  |-> "err",
                  val |-> "Unexpected token after parsed expression."]

(* C9: when Compiler::compile returns a failure, the module is what it was  *)
(* before the call.  (It is not: a failure of the body returns with the     *)
(* function that compile_prototype added still in the module.)              *)
C9_FailedCompileLeavesModule ==
    [][(pc' = "compiled" /\ cresult'.st = "err") => module' = module]_vars

\* `def g() x`: lowering failed and g is in the module
C9_FailedFunctionRemains ==
    /\ pc = "compiled"
    /\ input = SrcDefBad
    /\ cresult.st = "err"
    /\ cresult.val = "Could not find a matching variable."
    /\ module # <<>>
    /\ module[Len(module)].name = <<"g">>

(* C10: when the text is a decimal literal (digits with at most one `.`,    *)
(* at least one digit), alone or followed by white space only, the lexer    *)
(* yields exactly one token when it is run to the end: the Number holding   *)
(* the decimal value of the literal.  (It yields none when the literal is   *)
(* the last thing in the text.)                                             *)
C10_LiteralYieldsOneNumber ==
    LET src == lexer.input
        IsLiteral(n) ==
            /\ \A k \in 1..n : src[k] \in Digits \cup {"."}
            /\ Cardinality({k \in 1..n : src[k] = "."}) <= 1
            /\ \E k \in 1..n : src[k] \in Digits
            /\ \A k \in (n + 1)..Len(src) : IsWhitespace(src[k])
        Dot(n) == IF \E k \in 1..n : src[k] = "."
                  THEN CHOOSE k \in 1..n : src[k] = "." ELSE n + 1
        Value(n) ==
            Rat(DigitsValue(SubSeq(src, 1, Dot(n) - 1)
                              \o SubSeq(src, Dot(n) + 1, n)),
                Pow10(IF Dot(n) > n THEN 0 ELSE n - Dot(n)))
    IN  \A n \in 1..Len(src) :
            (lexst # "run" /\ IsLiteral(n)) =>
                /\ lexst = "done"
                /\ collected = <<TNumber(Value(n))>>

\* the text `1`: the lexer came to the end with no token
C10_LiteralAtEndLost ==
    /\ lexst = "done"
    /\ lexer.input = <<"1">>
    /\ lexer.chars = 1
    /\ collected = <<>>

(* C11: the token sequence the Parser holds contains no Token::Comment,     *)
(* and a comment contributes no token: the tokens of `# c` followed by a    *)
(* line holding 1, and of `1 # c`, are the single Number 1.  (Iterator::next *)
(* yields the Comment token like any other, and Parser::new collects it.)   *)
C11_NoCommentReachesParser ==
    /\ \A k \in 1..Len(tokens) : tokens[k].t # "Comment"
    /\ ( /\ pc \in {"parser", "parsed", "compiled"}
         /\ input \in {Text(<<"#", " ", "c", "\n", "1", "\n">>),
                       Text(<<"1", " ", "#", " ", "c", "\n">>)} )
       => tokens = <<TNumber(RInt(1))>>

\* `# c`, newline, `1`: the parser held the Comment token and rejected it
C11_CommentTokenParsed ==
    /\ pc = "parsed"
    /\ input = Text(<<"#", " ", "c", "\n", "1", "\n">>)
    /\ tokens = <<Tok("Comment"), TNumber(RInt(1))>>
    /\ pos = 0
    /\ presult = [st |-> "err", val |-> "Unknown expression."]

(* C12: when the text is one word (letters, digits and `_`, starting with   *)
(* a letter or `_`), alone or followed by white space only, the lexer run   *)
(* to the end yields exactly one token: the keyword token when the word is  *)
(* def, extern, if, then, else, for, in, var, unary or binary, and          *)
(* Ident(word) otherwise.  (`then` comes out as an identifier, and a word   *)
(* that is the last thing in the text yields no token.)                     *)
C12_WordYieldsOneToken ==
    LET src == lexer.input
        IsWord(n) ==
            /\ IsIdentStart(src[1])
            /\ \A k \in 1..n : src[k] = "_" \/ IsAlphanumeric(src[k])
            /\ \A k \in (n + 1)..Len(src) : IsWhitespace(src[k])
        Reserved(w) ==
            CASE w = Word("def") -> Tok("Def")
              [] w = Word("extern") -> Tok("Extern")
              [] w = Word("if") -> Tok("If")
              [] w = Word("then") -> Tok("Then")
              [] w = Word("else") -> Tok("Else")
              [] w = Word("for") -> Tok("For")
              [] w = Word("in") -> Tok("In")
              [] w = Word("var") -> Tok("Var")
              [] w = Word("unary") -> Tok("Unary")
              [] w = Word("binary") -> Tok("Binary")
              [] OTHER -> TIdent(w)
    IN  \A n \in 1..Len(src) :
            (lexst # "run" /\ IsWord(n)) =>
                /\ lexst = "done"
                /\ collected = <<Reserved(SubSeq(src, 1, n))>>

\* the text `then` and a newline: the one token is Ident("then")
C12_ThenLexedAsIdent ==
    /\ lexst = "done"
    /\ lexer.input = Text(<<"then", "\n">>)
    /\ lexer.chars = 5
    /\ collected = <<TIdent(Word("then"))>>

(* C13: every call of Lexer::lexer returns: the lexer never reaches a scan  *)
(* that does not end, whatever the text, also when the text ends inside a   *)
(* comment.  (The comment loop leaves only at a newline; at the end of the  *)
(* text chars.next() is None for ever and the call never returns.)          *)
C13_EveryCallReturns == lexst # "hang"

\* the text `1 #`: the Number was yielded, then the call that met the
\* comment did not return
C13_CommentAtEndNeverReturns ==
    /\ lexst = "hang"
    /\ lexer.input = Text(<<"1", " ", "#">>)
    /\ collected = <<TNumber(RInt(1))>>
    /\ ~ENABLED LexerNext

(* C14: only a parse changes the table, and a parse changes it only when    *)
(* its tokens are `def` or `extern`, `binary` and an operator op, and then  *)
(* only the entry of op: every entry of another operator stays as it was.   *)
(* A parse of anything else (a plain-named definition or declaration, a     *)
(* `unary` declaration, a bare expression), whether it succeeds, fails or   *)
(* aborts, leaves the table as it was.                                      *)
C14_TableChangedOnlyByBinary ==
    [][/\ (pc # "parser" => prec' = prec)
       /\ (pc = "parser" =>
             IF /\ Len(tokens) >= 3
                /\ tokens[1].t \in {"Def", "Extern"}
                /\ tokens[2].t = "Binary"
                /\ tokens[3].t = "Op"
             THEN {e \in prec' : e[1] # tokens[3].x}
                    = {e \in prec : e[1] # tokens[3].x}
             ELSE prec' = prec)]_vars

\* `def unary! (a) a` was parsed as the first definition and the table is
\* the seeded one, with no entry for `!`
C14_UnaryLeftTableAlone ==
    /\ pc = "parsed"
    /\ ndefs = 1
    /\ input = Text(<<"def", " ", "unary", "!", " ", "(", "a", ")", " ", "a",
                      "\n">>)
    /\ presult.st = "ok"
    /\ presult.val.prototype.name = UnaryName("!")
    /\ prec = StandardTable
    /\ ~HasKey(prec, "!")

C16_StepBeforeEndCondition ==
    ( /\ pc = "compiled"
      /\ cresult.st = "ok"
      /\ presult.val.body # <<>>
      /\ presult.val.body[1].k = "For"
      /\ presult.val.body[1].end.k = "Binary" )
    => \A f \in {module[cresult.val]} :
         \A b \in 1..Len(f.blocks) : \A k \in 2..Len(f.blocks[b].instrs) :
           \A ins \in {f.blocks[b].instrs} :
             /\ (ins[k].op = "br" /\ ins[k].args[1] > b /\
                 f.blocks[ins[k].args[1]].name = "loop")
                  => ins[k - 1].op = "store"
             /\ (ins[k].op = "condbr" /\ ins[k].args[2] <= b)
                  => /\ ins[k - 1].op = "fcmp_one"
                     /\ ins[k - 1].args[1].c = "reg"
                     /\ \E s \in 3..(k - 2) :
                          /\ ins[s].op = "store"
                          /\ ins[s - 1].op = "fadd"
                          /\ ins[s - 2].op = "load"
                          /\ \E j \in (s + 1)..(k - 2) :
                                 ins[j].id = ins[k - 1].args[1].x

\* `for i = 1, i < 3 in i`: the loop block reads i for the body, computes
\* i < 3, and only then loads, adds and stores
C16_EndConditionReadBeforeStep ==
    /\ pc = "compiled"
    /\ input = Text(<<"for", " ", "i", " ", "=", " ", "1", ",", " ", "i", " ",
                      "<", " ", "3", " ", "in", " ", "i", "\n">>)
    /\ cresult.st = "ok"
    /\ Len(module[cresult.val].blocks) = 3
    /\ [k \in 1..9 |-> module[cresult.val].blocks[2].instrs[k].op] =
         <<"load", "load", "fcmp_ult", "uitofp", "load", "fadd", "store",
           "fcmp_one", "condbr">>
    /\ module[cresult.val].blocks[2].instrs[8].args[1] = Reg(5)

(* C17: wherever the tokens of an expression hold a name, `(` and `)` in    *)
(* a row, parse_id_expr entered at the name yields the call of the name     *)
(* with no arguments and stops just past the `)`; and the texts `foo()`,    *)
(* `f()+1` and `g(f())` parse successfully.  (parse_id_expr returns at the  *)
(* `)` without consuming it.)                                               *)
C17_EmptyCallConsumesParen ==
    /\ \A p \in 0..(Len(tokens) - 3) :
           ( /\ tokens[1].t \notin {"Def", "Extern"}
             /\ tokens[p + 1].t = "Ident"
             /\ tokens[p + 2].t = "LParen"
             /\ tokens[p + 3].t = "RParen" )
           => parse_id_expr(tokens, p, prec)
                = Ok(p + 3, ECall(tokens[p + 1].x, <<>>))
    /\ ( /\ pc = "parsed"
         /\ input \in {SrcCallEmpty,
                       Text(<<"f", "(", ")", "+", "1", "\n">>),
                       Text(<<"g", "(", "f", "(", ")", ")", "\n">>)} )
       => presult.st = "ok" /\ pos = Len(tokens)

\* `f()+1`: the call was parsed with the parser left at `)`, so the
\* expression ended there and parse() rejected the rest
C17_EmptyCallAsOperandRejected ==
    /\ pc = "parsed"
    /\ input = Text(<<"f", "(", ")", "+", "1", "\n">>)
    /\ Len(tokens) = 5
    /\ parse_id_expr(tokens, 0, prec) = Ok(2, ECall(<<"f">>, <<>>))
    /\ tokens[pos + 1] = Tok("RParen")
    /\ presult = [st  |-> "err",
                  val |-> "Unexpected token after parsed expression."]

(* C18: a parse that returns a failure leaves the table as it was before    *)
(* the parse began.  (A `binary` declaration enters its operator into the   *)
(* table before its parameter list and body are parsed, and a failure       *)
(* after that leaves the entry in.)                                         *)
C18_FailedParseLeavesTable ==
    [][(pc = "parser" /\ presult'.st = "err") => prec' = prec]_vars

\* `def binary| 5 (a b) a` was the first parse and failed at the parameter
\* list; `|` is in the table with precedence 5
C18_RejectedDeclarationEntered ==
    /\ pc = "parsed"
    /\ ndefs = 1
    /\ input = Text(<<"def", " ", "binary", "|", " ", "5", " ", "(", "a", " ",
                      "b", ")", " ", "a", "\n">>)
    /\ presult =
         [st  |-> "err",
          val |-> "Expected ',' or ')' character in prototype declaration."]
    /\ ~HasKey(StandardTable, "|")
    /\ <<"|", 5>> \in prec

====
